---- MODULE Spec2Model ----
(***************************************************************************)
(* Model of the relayed UDP connection (UDPConn) of the TURN client:       *)
(* WriteTo with its lazily created permissions and channel bindings,       *)
(* ReadFrom with its read queue, read-deadline timer and close channel,    *)
(* HandleInbound, SetReadDeadline and Close.                               *)
(*                                                                         *)
(* Every goroutine is a process with a program counter.  One action is one *)
(* step between two accesses to shared state (a map under its own lock, a  *)
(* per-entry mutex, a channel, a call to the observer); the local          *)
(* computation between two such accesses belongs to the step before it.    *)
(***************************************************************************)
EXTENDS Integers, Sequences, FiniteSets, TLC

\* ------------------------------------------------------------------ bounds
NumPeers == 2        \* distinct peer addresses
MaxWrites == 3       \* WriteTo calls in one run
MaxReads == 3        \* ReadFrom calls in one run
MaxInbound == 3      \* datagrams the transport delivers in one run
maxReadQueueSize == 2 \* capacity of readCh (1024 in the source)

\* two goroutines call WriteTo concurrently
Writers == {1, 2}
Peers == 1..NumPeers
\* two goroutines call Close concurrently
Closers == {1, 2}
\* ReadFrom has a single consumer; the others are not modelled
Readers == {1}
\* lengths of datagrams and of read buffers: a short one and a long one
Sizes == {1, 2}

VARIABLES
    \* --- permissionMap and the permission objects (c.permMap)
    perms,        \* every &permission{} allocated so far: [st, holder]
    permMap,      \* peer -> index into perms, 0 when the map has no entry
    \* --- bindingManager and the binding objects (c.bindingMgr)
    bindings,     \* every binding created so far: [addr, st, holder]; its number is its index
    addrMap,      \* peer -> index into bindings, 0 when absent
    chanMap,      \* the channel numbers registered in the manager
    \* --- one WriteTo call per writer goroutine
    wpc,          \* position of the writer inside WriteTo
    wpeer,        \* addr argument of the call
    wperm,        \* local variable perm (index into perms)
    wbind,        \* local variable b (index into bindings)
    wevs,         \* what this call has put on the wire, in order
    wret,         \* result of the last call
    wready,       \* the binding tracked for addr was Ready when the call started
    nWrites,      \* calls started so far
    \* --- what the observer has seen (history)
    permExch,     \* peer -> create-permission exchanges issued by WriteTo
    bindExch,     \* peer -> channel-bind exchanges issued
    exchFailed,   \* peer -> some exchange for the peer has failed
    permGranted,  \* peer -> create-permission exchanges of WriteTo that succeeded
    panicked,     \* a goroutine has panicked
    \* --- Close
    cpc,          \* position of the closer inside Close
    cret,         \* result of Close
    closeCh,      \* TRUE once close(c.closeCh) has run
    allocTimerOn, \* refreshAllocTimer is running
    permsTimerOn, \* refreshPermsTimer is running
    teardowns,    \* lifetime-zero refresh requests sent
    deallocated,  \* calls of obs.OnDeallocated
    wcaught,      \* the writers that were inside an exchange when closeCh was closed
    \* --- the allocation lifetime and the two refresh timers
    lifetime,     \* c.lifetime
    allocPeriod,  \* the interval refreshAllocTimer was created with
    tpc,          \* timer id -> position of its callback inside onRefreshTimers
    tlife,        \* timer id -> local variable lifetime of the callback
    lateExch,     \* ids of the timers whose callback issued an exchange after a Close returned nil
    lastRefresh,  \* the last refreshAllocation call that ended: [dontWait, res, l, seq]
    \* --- the read side
    readCh,       \* the buffered channel of inbound datagrams [id, len], oldest first
    closed,       \* the AtomicBool c.closed
    timerArmed,   \* readTimer will fire at a deadline still ahead
    timerC,       \* values waiting in readTimer.C (0 or 1)
    deadline,     \* kind of the last SetReadDeadline argument
    rpc,          \* position of the reader inside ReadFrom
    rbuf,         \* len(p) of the call
    rcase,        \* the select case that woke a parked reader
    rres,         \* result of the last call
    rout,         \* n and addr the last call returned: [n, from], from 0 for nil
    rlate,        \* the call started after a Close had returned nil
    nReads,       \* ReadFrom calls started so far
    nInbound,     \* HandleInbound calls so far
    \* --- what has happened to the datagrams (history)
    accepted,     \* ids HandleInbound put into readCh, in arrival order
    dropped,      \* ids HandleInbound dropped
    delivered,    \* ids successful ReadFrom calls received, in order
    shortDropped  \* ids received by a ReadFrom that failed with io.ErrShortBuffer

writeVars == <<perms, permMap, bindings, addrMap, chanMap, wpc, wpeer, wperm, wbind,
               wevs, wret, wready, nWrites, permExch, bindExch, exchFailed, permGranted>>
refreshVars == <<lifetime, allocPeriod, tpc, tlife, lateExch, lastRefresh>>
closerVars == <<cpc, cret, closeCh, allocTimerOn, permsTimerOn, teardowns, deallocated, wcaught>>
closeVars == <<closerVars, refreshVars>>
readVars == <<readCh, closed, timerArmed, timerC, deadline, rpc, rbuf, rcase, rres, rout, rlate,
              nReads, nInbound, accepted, dropped, delivered, shortDropped>>
vars == <<writeVars, closeVars, readVars, panicked>>

\* ------------------------------------------------------- permission tracker
\* permissionMap.find: the entry for the address, 0 when there is none
permFind(m, p) == m[p]

\* permissionMap.insert: the entry for the address becomes the given permission
permInsert(m, p, i) == [m EXCEPT ![p] = i]

\* permissionMap.delete: the address has no entry afterwards
permDelete(m, p) == [m EXCEPT ![p] = 0]

\* a new permission starts Idle
newPermission == [st |-> "Idle", holder |-> 0]

\* --------------------------------------------------------- binding tracker
\* bindingManager.findByAddr
findByAddr(am, p) == am[p]

\* bindingManager.findByNumber: the binding registered under the number, 0 if none
findByNumber(cm, n) == IF n \in cm THEN n ELSE 0

\* a new binding starts Idle; its channel number is its index
newBinding(p) == [addr |-> p, st |-> "Idle", holder |-> 0]

\* bindingManager.create: the new binding is registered under its address,
\* replacing what the address had, and under its number
createAddrMap(am, p, n) == [am EXCEPT ![p] = n]
createChanMap(cm, n) == cm \cup {n}

\* bindingManager.deleteByAddr: drops the entry of the address from both maps
deleteByAddrAddrMap(am, p) == [am EXCEPT ![p] = 0]
deleteByAddrChanMap(am, cm, p) == cm \ {am[p]}

\* ------------------------------------------------------------ the observer
\* outcomes of obs.PerformTransaction(msg, to, false): a success response, a
\* transaction error (err != nil, zero TransactionResult), or a response of
\* another type or class (an error response)
TxResults == {"ok", "txErr", "errResp"}

\* what obs.WriteTo returns, (n, nil) or (0, err): WriteTo passes it on unchanged
transportResult == "transport"

Ev(k, n) == [k |-> k, n |-> n]

\* createPermissions returns an error for a transaction error and for an
\* error response, nil otherwise
createPermissionsFails(res) == res # "ok"

\* bind: what the call does with the transaction's outcome.  On a transaction
\* error it deletes the binding and goes on to read trRes.Msg.Type of the zero
\* TransactionResult: a nil dereference, which panics.
bindOutcome(res) ==
    CASE res = "ok" -> "nil"
      [] res = "errResp" -> "err"
      [] res = "txErr" -> "panic"

\* WriteTo: the binding's state after bind returned
bindStateAfter(out) == IF out = "nil" THEN "Ready" ELSE "Failed"

\* WriteTo: how the payload leaves when the binding was read in state st
\* before any bind attempt: channel data only for Ready
sendsChannelData(st) == st = "Ready"

\* (mutant) the failed creation leaves the entry in the map
permMapAfterFailure_Keeps(m, p) == m

\* WriteTo: the permission map after createPermissions returned an error:
\* c.permMap.delete(addr)
permMapAfterFailure(m, p) == permDelete(m, p)

\* ------------------------------------------------------------------ WriteTo
\* (mutant) the address is tested after a permission has been allocated
WriteToNotUDP_AfterAlloc(w) ==
    /\ wpc[w] = "idle"
    /\ nWrites < MaxWrites
    /\ nWrites' = nWrites + 1
    /\ perms' = Append(perms, newPermission)
    /\ wpeer' = [wpeer EXCEPT ![w] = 0]
    /\ wevs' = [wevs EXCEPT ![w] = <<>>]
    /\ wret' = [wret EXCEPT ![w] = "badAddr"]
    /\ wready' = [wready EXCEPT ![w] = FALSE]
    /\ UNCHANGED <<permMap, bindings, addrMap, chanMap, wpc, wperm, wbind,
                   permExch, bindExch, exchFailed, permGranted, closeVars, readVars, panicked>>

\* addr is not a *net.UDPAddr: return (0, error) at once
WriteToNotUDP(w) ==
    /\ wpc[w] = "idle"
    /\ nWrites < MaxWrites
    /\ nWrites' = nWrites + 1
    /\ wpeer' = [wpeer EXCEPT ![w] = 0]
    /\ wevs' = [wevs EXCEPT ![w] = <<>>]
    /\ wret' = [wret EXCEPT ![w] = "badAddr"]
    /\ wready' = [wready EXCEPT ![w] = FALSE]
    /\ UNCHANGED <<perms, permMap, bindings, addrMap, chanMap, wpc, wperm, wbind,
                   permExch, bindExch, exchFailed, permGranted, closeVars, readVars, panicked>>

\* the call starts: perm, ok := c.permMap.find(addr)
WriteToFind(w, p) ==
    /\ wpc[w] = "idle"
    /\ nWrites < MaxWrites
    /\ nWrites' = nWrites + 1
    /\ wpeer' = [wpeer EXCEPT ![w] = p]
    /\ wperm' = [wperm EXCEPT ![w] = permFind(permMap, p)]
    /\ wevs' = [wevs EXCEPT ![w] = <<>>]
    /\ wret' = [wret EXCEPT ![w] = "none"]
    /\ wready' = [wready EXCEPT ![w] =
                     /\ findByAddr(addrMap, p) # 0
                     /\ bindings[findByAddr(addrMap, p)].st = "Ready"]
    /\ wpc' = [wpc EXCEPT ![w] = IF permFind(permMap, p) = 0 THEN "permInsert" ELSE "permLock"]
    /\ UNCHANGED <<perms, permMap, bindings, addrMap, chanMap, wbind,
                   permExch, bindExch, exchFailed, permGranted, closeVars, readVars, panicked>>

\* not found: perm = &permission{}; c.permMap.insert(addr, perm)
WriteToInsert(w) ==
    /\ wpc[w] = "permInsert"
    /\ perms' = Append(perms, newPermission)
    /\ permMap' = permInsert(permMap, wpeer[w], Len(perms) + 1)
    /\ wperm' = [wperm EXCEPT ![w] = Len(perms) + 1]
    /\ wpc' = [wpc EXCEPT ![w] = "permLock"]
    /\ UNCHANGED <<bindings, addrMap, chanMap, wpeer, wbind, wevs, wret, wready, nWrites,
                   permExch, bindExch, exchFailed, permGranted, closeVars, readVars, panicked>>

\* perm.mutex.Lock(); the permission is already Permitted: unlock and go on
WriteToPermitted(w) ==
    /\ wpc[w] = "permLock"
    /\ perms[wperm[w]].holder = 0
    /\ perms[wperm[w]].st # "Idle"
    /\ wperm' = [wperm EXCEPT ![w] = 0]
    /\ wpc' = [wpc EXCEPT ![w] = "bindFind"]
    /\ UNCHANGED <<perms, permMap, bindings, addrMap, chanMap, wpeer, wbind, wevs,
                   wret, wready, nWrites, permExch, bindExch, exchFailed, permGranted, closeVars, readVars, panicked>>

\* perm.mutex.Lock(); the permission is Idle: createPermissions sends its
\* request and waits for the response with the mutex held
WriteToCreatePermission(w) ==
    /\ wpc[w] = "permLock"
    /\ perms[wperm[w]].holder = 0
    /\ perms[wperm[w]].st = "Idle"
    /\ perms' = [perms EXCEPT ![wperm[w]].holder = w]
    /\ wevs' = [wevs EXCEPT ![w] = Append(@, Ev("perm", 0))]
    /\ permExch' = [permExch EXCEPT ![wpeer[w]] = @ + 1]
    /\ wpc' = [wpc EXCEPT ![w] = "permWait"]
    /\ UNCHANGED <<permMap, bindings, addrMap, chanMap, wpeer, wperm, wbind,
                   wret, wready, nWrites, bindExch, exchFailed, permGranted, closeVars, readVars, panicked>>

\* createPermissions returned nil: perm.setState(permStatePermitted); unlock
WriteToPermissionGranted(w) ==
    /\ wpc[w] = "permWait"
    /\ \E res \in TxResults :
          /\ ~createPermissionsFails(res)
          /\ perms' = [perms EXCEPT ![wperm[w]] = [st |-> "Permitted", holder |-> 0]]
    /\ permGranted' = [permGranted EXCEPT ![wpeer[w]] = @ + 1]
    /\ wperm' = [wperm EXCEPT ![w] = 0]
    /\ wpc' = [wpc EXCEPT ![w] = "bindFind"]
    /\ UNCHANGED <<permMap, bindings, addrMap, chanMap, wpeer, wbind, wevs,
                   wret, wready, nWrites, permExch, bindExch, exchFailed, closeVars, readVars, panicked>>

\* (mutant) the error of createPermissions is logged and the write goes on
WriteToPermissionFailed_GoesOn(w) ==
    /\ wpc[w] = "permWait"
    /\ \E res \in TxResults : createPermissionsFails(res)
    /\ permMap' = permMapAfterFailure(permMap, wpeer[w])
    /\ perms' = [perms EXCEPT ![wperm[w]].holder = 0]
    /\ exchFailed' = [exchFailed EXCEPT ![wpeer[w]] = TRUE]
    /\ wperm' = [wperm EXCEPT ![w] = 0]
    /\ wpc' = [wpc EXCEPT ![w] = "bindFind"]
    /\ UNCHANGED <<bindings, addrMap, chanMap, wpeer, wbind, wevs, wret, permGranted,
                   wready, nWrites, permExch, bindExch, closeVars, readVars, panicked>>

\* createPermissions returned an error: c.permMap.delete(addr); unlock;
\* return 0, err
WriteToPermissionFailed(w) ==
    /\ wpc[w] = "permWait"
    /\ \E res \in TxResults :
          /\ createPermissionsFails(res)
          /\ permMap' = permMapAfterFailure(permMap, wpeer[w])
    /\ perms' = [perms EXCEPT ![wperm[w]].holder = 0]
    /\ exchFailed' = [exchFailed EXCEPT ![wpeer[w]] = TRUE]
    /\ wret' = [wret EXCEPT ![w] = "permErr"]
    /\ wperm' = [wperm EXCEPT ![w] = 0]
    /\ wpc' = [wpc EXCEPT ![w] = "idle"]
    /\ UNCHANGED <<permGranted, bindings, addrMap, chanMap, wpeer, wbind, wevs,
                   wready, nWrites, permExch, bindExch, closeVars, readVars, panicked>>

\* b, ok := c.bindingMgr.findByAddr(addr)
WriteToFindBinding(w) ==
    /\ wpc[w] = "bindFind"
    /\ wbind' = [wbind EXCEPT ![w] = findByAddr(addrMap, wpeer[w])]
    /\ wpc' = [wpc EXCEPT ![w] = IF findByAddr(addrMap, wpeer[w]) = 0
                                 THEN "bindCreate" ELSE "bindState"]
    /\ UNCHANGED <<perms, permMap, bindings, addrMap, chanMap, wpeer, wperm, wevs,
                   wret, wready, nWrites, permExch, bindExch, exchFailed, permGranted, closeVars, readVars, panicked>>

\* not found: b = c.bindingMgr.create(addr), a new Idle binding with a fresh
\* channel number, registered under its address and under its number
WriteToCreateBinding(w) ==
    /\ wpc[w] = "bindCreate"
    /\ bindings' = Append(bindings, newBinding(wpeer[w]))
    /\ addrMap' = createAddrMap(addrMap, wpeer[w], Len(bindings) + 1)
    /\ chanMap' = createChanMap(chanMap, Len(bindings) + 1)
    /\ wbind' = [wbind EXCEPT ![w] = Len(bindings) + 1]
    /\ wpc' = [wpc EXCEPT ![w] = "bindState"]
    /\ UNCHANGED <<perms, permMap, wpeer, wperm, wevs, wret, wready, nWrites,
                   permExch, bindExch, exchFailed, permGranted, closeVars, readVars, panicked>>

\* WriteTo hands the payload to the transport as ev and returns the
\* transport's result
SendAndReturn(w, ev) ==
    /\ wevs' = [wevs EXCEPT ![w] = Append(@, ev)]
    /\ wret' = [wret EXCEPT ![w] = transportResult]
    /\ wbind' = [wbind EXCEPT ![w] = 0]
    /\ wpc' = [wpc EXCEPT ![w] = "idle"]

\* the send indication built from the payload and the peer address
sendIndication == Ev("ind", 0)

\* sendChannelData: the payload framed with the channel number
sendChannelData(chNum) == Ev("chan", chNum)

\* (mutant) channel data as soon as the bind of this call succeeded
sendAfterBind_WhenReady(out, chNum) ==
    IF out = "nil" THEN sendChannelData(chNum) ELSE sendIndication

\* WriteTo: what leaves after the bind attempt of this call, whatever bind
\* returned (out) for the channel number chNum: the send indication
sendAfterBind(out, chNum) == sendIndication

\* b.state() == bindingStateReady: return c.sendChannelData(p, b.number)
WriteToReady(w) ==
    /\ wpc[w] = "bindState"
    /\ sendsChannelData(bindings[wbind[w]].st)
    /\ SendAndReturn(w, sendChannelData(wbind[w]))
    /\ UNCHANGED <<perms, permMap, bindings, addrMap, chanMap, wpeer, wperm,
                   wready, nWrites, permExch, bindExch, exchFailed, permGranted, closeVars, readVars, panicked>>

\* b.state() is neither Ready nor Idle: the send indication, without a bind
WriteToNotIdle(w) ==
    /\ wpc[w] = "bindState"
    /\ ~sendsChannelData(bindings[wbind[w]].st)
    /\ bindings[wbind[w]].st # "Idle"
    /\ SendAndReturn(w, sendIndication)
    /\ UNCHANGED <<perms, permMap, bindings, addrMap, chanMap, wpeer, wperm,
                   wready, nWrites, permExch, bindExch, exchFailed, permGranted, closeVars, readVars, panicked>>

\* b.state() == bindingStateIdle: go for b.mutex
WriteToIdle(w) ==
    /\ wpc[w] = "bindState"
    /\ ~sendsChannelData(bindings[wbind[w]].st)
    /\ bindings[wbind[w]].st = "Idle"
    /\ wpc' = [wpc EXCEPT ![w] = "bindLock"]
    /\ UNCHANGED <<perms, permMap, bindings, addrMap, chanMap, wpeer, wperm, wbind, wevs,
                   wret, wready, nWrites, permExch, bindExch, exchFailed, permGranted, closeVars, readVars, panicked>>

\* b.mutex.Lock(); the state is no longer Idle: unlock; the send indication
WriteToBindingChanged(w) ==
    /\ wpc[w] = "bindLock"
    /\ bindings[wbind[w]].holder = 0
    /\ bindings[wbind[w]].st # "Idle"
    /\ SendAndReturn(w, sendIndication)
    /\ UNCHANGED <<perms, permMap, bindings, addrMap, chanMap, wpeer, wperm,
                   wready, nWrites, permExch, bindExch, exchFailed, permGranted, closeVars, readVars, panicked>>

\* b.mutex.Lock(); the state is still Idle: c.bind(b) sends its request and
\* waits for the response with the mutex held
WriteToBind(w) ==
    /\ wpc[w] = "bindLock"
    /\ bindings[wbind[w]].holder = 0
    /\ bindings[wbind[w]].st = "Idle"
    /\ bindings' = [bindings EXCEPT ![wbind[w]].holder = w]
    /\ wevs' = [wevs EXCEPT ![w] = Append(@, Ev("bind", wbind[w]))]
    /\ bindExch' = [bindExch EXCEPT ![wpeer[w]] = @ + 1]
    /\ wpc' = [wpc EXCEPT ![w] = "bindWait"]
    /\ UNCHANGED <<perms, permMap, addrMap, chanMap, wpeer, wperm, wbind,
                   wret, wready, nWrites, permExch, exchFailed, permGranted, closeVars, readVars, panicked>>

\* bind returned, nil or an error: b.setState(Ready or Failed); unlock; the
\* send indication
WriteToBindReturned(w) ==
    /\ wpc[w] = "bindWait"
    /\ \E res \in TxResults :
          /\ bindOutcome(res) # "panic"
          /\ bindings' = [bindings EXCEPT ![wbind[w]].st = bindStateAfter(bindOutcome(res)),
                                          ![wbind[w]].holder = 0]
          /\ exchFailed' = [exchFailed EXCEPT ![wpeer[w]] = @ \/ bindOutcome(res) # "nil"]
          /\ SendAndReturn(w, sendAfterBind(bindOutcome(res), wbind[w]))
    /\ UNCHANGED <<permGranted, perms, permMap, addrMap, chanMap, wpeer, wperm,
                   wready, nWrites, permExch, bindExch, closeVars, readVars, panicked>>

\* bind on a transaction error: c.bindingMgr.deleteByAddr(b.addr), then the
\* nil dereference; the panic runs the deferred unlock and leaves WriteTo
WriteToBindPanics(w) ==
    /\ wpc[w] = "bindWait"
    /\ \E res \in TxResults : bindOutcome(res) = "panic"
    /\ addrMap' = deleteByAddrAddrMap(addrMap, bindings[wbind[w]].addr)
    /\ chanMap' = deleteByAddrChanMap(addrMap, chanMap, bindings[wbind[w]].addr)
    /\ bindings' = [bindings EXCEPT ![wbind[w]].holder = 0]
    /\ exchFailed' = [exchFailed EXCEPT ![wpeer[w]] = TRUE]
    /\ panicked' = TRUE
    /\ wret' = [wret EXCEPT ![w] = "panic"]
    /\ wbind' = [wbind EXCEPT ![w] = 0]
    /\ wpc' = [wpc EXCEPT ![w] = "panicked"]
    /\ UNCHANGED <<permGranted, perms, permMap, wpeer, wperm, wevs,
                   wready, nWrites, permExch, bindExch, closeVars, readVars>>

WriteTo(w) ==
    \/ WriteToNotUDP(w)
    \/ \E p \in Peers : WriteToFind(w, p)
    \/ WriteToInsert(w)
    \/ WriteToPermitted(w)
    \/ WriteToCreatePermission(w)
    \/ WriteToPermissionGranted(w)
    \/ WriteToPermissionFailed(w)
    \/ WriteToFindBinding(w)
    \/ WriteToCreateBinding(w)
    \/ WriteToReady(w)
    \/ WriteToNotIdle(w)
    \/ WriteToIdle(w)
    \/ WriteToBindingChanged(w)
    \/ WriteToBind(w)
    \/ WriteToBindReturned(w)
    \/ WriteToBindPanics(w)

\* ----------------------------------------------------------------- ReadFrom
\* (mutant) a select that does not listen on closeCh
selectCases_NoClose == {"data", "timer"}

\* the cases of the select in ReadFrom
selectCases == {"data", "timer", "close"}

\* the cases of the select that can proceed now
ReadyCases ==
    {k \in selectCases : \/ k = "data" /\ readCh # <<>>
                         \/ k = "timer" /\ timerC > 0
                         \/ k = "close" /\ closeCh}

\* readers blocked in the select that case k wakes
Parked(k) == {r \in Readers : rpc[r] = "parked" /\ k \in selectCases}

\* n := copy(p, ibData.data)
copyLen(buf, len) == IF buf < len THEN buf ELSE len

\* what ReadFrom returns for a datagram of length len: io.ErrShortBuffer when
\* the copy is shorter than the datagram
readResult(buf, len) == IF copyLen(buf, len) < len THEN "shortBuffer" ELSE "data"

\* (mutant) a short buffer gets the part of the datagram that fits
readReturn_Truncates(buf, d) == [n |-> copyLen(buf, d.len), from |-> d.id]

\* what ReadFrom returns besides the error for datagram d: (0, nil) when the
\* copy is shorter than the datagram, (n, ibData.from) otherwise
readReturn(buf, d) ==
    IF copyLen(buf, d.len) < d.len
      THEN [n |-> 0, from |-> 0]
      ELSE [n |-> copyLen(buf, d.len), from |-> d.id]

\* reader r has received datagram d from readCh
Received(r, d) ==
    /\ rres' = [rres EXCEPT ![r] = readResult(rbuf[r], d.len)]
    /\ rout' = [rout EXCEPT ![r] = readReturn(rbuf[r], d)]
    /\ IF readResult(rbuf[r], d.len) = "data"
         THEN /\ delivered' = Append(delivered, d.id)
              /\ shortDropped' = shortDropped
         ELSE /\ shortDropped' = shortDropped \cup {d.id}
              /\ delivered' = delivered

\* ReadFrom is called with a buffer of the given size and tests c.closed
ReadFromCall(r, size) ==
    /\ rpc[r] = "idle"
    /\ nReads < MaxReads
    /\ nReads' = nReads + 1
    /\ rbuf' = [rbuf EXCEPT ![r] = size]
    /\ rout' = [rout EXCEPT ![r] = [n |-> 0, from |-> 0]]
    /\ rlate' = [rlate EXCEPT ![r] = \E c \in Closers : cpc[c] = "returned" /\ cret[c] = "nil"]
    /\ IF closed
         THEN /\ rres' = [rres EXCEPT ![r] = "closed"]
              /\ rpc' = rpc
         ELSE /\ rres' = [rres EXCEPT ![r] = "none"]
              /\ rpc' = [rpc EXCEPT ![r] = "select"]
    /\ UNCHANGED <<readCh, closed, timerArmed, timerC, deadline, rcase, nInbound,
                   accepted, dropped, delivered, shortDropped, writeVars, closeVars, panicked>>

\* the select finds no case ready: the goroutine parks
ReadFromPark(r) ==
    /\ rpc[r] = "select"
    /\ ReadyCases = {}
    /\ rpc' = [rpc EXCEPT ![r] = "parked"]
    /\ UNCHANGED <<readCh, closed, timerArmed, timerC, deadline, rbuf, rout, rcase, rres, rlate,
                   nReads, nInbound, accepted, dropped, delivered, shortDropped,
                   writeVars, closeVars, panicked>>

\* case ibData := <-c.readCh, one of the ready cases: return the datagram or
\* io.ErrShortBuffer
ReadFromData(r) ==
    /\ rpc[r] = "select"
    /\ "data" \in ReadyCases
    /\ readCh' = Tail(readCh)
    /\ Received(r, Head(readCh))
    /\ rpc' = [rpc EXCEPT ![r] = "idle"]
    /\ UNCHANGED <<closed, timerArmed, timerC, deadline, rbuf, rcase, rlate,
                   nReads, nInbound, accepted, dropped,
                   writeVars, closeVars, panicked>>

\* case <-c.readTimer.C, one of the ready cases: return the timeout error
ReadFromTimeout(r) ==
    /\ rpc[r] = "select"
    /\ "timer" \in ReadyCases
    /\ timerC' = 0
    /\ rres' = [rres EXCEPT ![r] = "timeout"]
    /\ rpc' = [rpc EXCEPT ![r] = "idle"]
    /\ UNCHANGED <<readCh, closed, timerArmed, deadline, rbuf, rout, rcase, rlate,
                   nReads, nInbound, accepted, dropped, delivered, shortDropped,
                   writeVars, closeVars, panicked>>

\* case <-c.closeCh, one of the ready cases: c.closed.SetToTrue(), the loop
\* ends, return the closed-connection error
ReadFromClosed(r) ==
    /\ rpc[r] = "select"
    /\ "close" \in ReadyCases
    /\ closed' = TRUE
    /\ rres' = [rres EXCEPT ![r] = "closed"]
    /\ rpc' = [rpc EXCEPT ![r] = "idle"]
    /\ UNCHANGED <<readCh, timerArmed, timerC, deadline, rbuf, rout, rcase, rlate,
                   nReads, nInbound, accepted, dropped, delivered, shortDropped,
                   writeVars, closeVars, panicked>>

\* a parked reader runs again with the case that woke it
ReadFromWoken(r) ==
    /\ rpc[r] = "woken"
    /\ rpc' = [rpc EXCEPT ![r] = "idle"]
    /\ rcase' = [rcase EXCEPT ![r] = "none"]
    /\ IF rcase[r] = "close"
         THEN /\ closed' = TRUE
              /\ rres' = [rres EXCEPT ![r] = "closed"]
         ELSE UNCHANGED <<closed, rres>>
    /\ UNCHANGED <<readCh, timerArmed, timerC, deadline, rbuf, rout, rlate,
                   nReads, nInbound, accepted, dropped, delivered, shortDropped,
                   writeVars, closeVars, panicked>>

ReadFrom(r) ==
    \/ \E size \in Sizes : ReadFromCall(r, size)
    \/ ReadFromPark(r)
    \/ ReadFromData(r)
    \/ ReadFromTimeout(r)
    \/ ReadFromClosed(r)
    \/ ReadFromWoken(r)

\* ------------------------------------------------------------ HandleInbound
\* (mutant) the newest datagram goes to the head of the queue
enqueue_AtHead(q, d) == <<d>> \o q

\* the channel send of HandleInbound into a queue with room
enqueue(q, d) == Append(q, d)

\* the default case of the select is taken when the queue is full
queueFull(q) == Len(q) >= maxReadQueueSize

\* select { case c.readCh <- data: default: }: the datagram goes to a reader
\* parked on readCh, else into the queue, else it is dropped
HandleInbound(len) ==
    /\ nInbound < MaxInbound
    /\ nInbound' = nInbound + 1
    /\ LET d == [id |-> nInbound + 1, len |-> len] IN
         IF Parked("data") # {}
           THEN /\ \E r \in Parked("data") :
                      /\ rpc' = [rpc EXCEPT ![r] = "woken"]
                      /\ rcase' = [rcase EXCEPT ![r] = "data"]
                      /\ Received(r, d)
                /\ accepted' = Append(accepted, d.id)
                /\ UNCHANGED <<readCh, dropped>>
           ELSE IF ~queueFull(readCh)
                  THEN /\ readCh' = enqueue(readCh, d)
                       /\ accepted' = Append(accepted, d.id)
                       /\ UNCHANGED <<dropped, rpc, rcase, rres, rout, delivered,
                                      shortDropped>>
                  ELSE /\ dropped' = dropped \cup {d.id}
                       /\ UNCHANGED <<readCh, accepted, rpc, rcase, rres, rout, delivered,
                                      shortDropped>>
    /\ UNCHANGED <<closed, timerArmed, timerC, deadline, rbuf, rlate, nReads,
                   writeVars, closeVars, panicked>>

\* ---------------------------------------------------------- SetReadDeadline
\* the timer sends on readTimer.C (capacity 1, never blocking): to a reader
\* parked in the select if there is one, else into the channel whose content
\* was c
TimerSends(c) ==
    IF Parked("timer") # {}
      THEN /\ \E r \in Parked("timer") :
                 /\ rpc' = [rpc EXCEPT ![r] = "woken"]
                 /\ rcase' = [rcase EXCEPT ![r] = "timer"]
                 /\ rres' = [rres EXCEPT ![r] = "timeout"]
           /\ timerC' = c
      ELSE /\ timerC' = 1
           /\ UNCHANGED <<rpc, rcase, rres>>

\* the duration SetReadDeadline resets the timer to: never for the zero
\* time, otherwise time.Until(t), which is not positive for a time in the past
Deadlines == {"zero", "past", "future"}

\* c.readTimer.Reset(d).  Whether Reset discards a value that an earlier
\* expiry left in the channel depends on the Go release: either happens.
SetReadDeadline(t) ==
    /\ deadline' = t
    /\ timerArmed' = (t = "future")
    /\ \E discards \in BOOLEAN :
          LET c == IF discards THEN 0 ELSE timerC IN
            IF t = "past"
              THEN TimerSends(c)
              ELSE /\ timerC' = c
                   /\ UNCHANGED <<rpc, rcase, rres>>
    /\ UNCHANGED <<readCh, closed, rbuf, rout, rlate, nReads, nInbound,
                   accepted, dropped, delivered, shortDropped, writeVars, closeVars, panicked>>

\* the deadline set in the future is reached: the timer fires
TimerFires ==
    /\ timerArmed
    /\ timerArmed' = FALSE
    /\ TimerSends(timerC)
    /\ UNCHANGED <<readCh, closed, deadline, rbuf, rout, rlate, nReads, nInbound,
                   accepted, dropped, delivered, shortDropped, writeVars, closeVars, panicked>>

\* -------------------------------------------------- FindAddrByChannelNumber
\* the peer address bound to the channel number, and whether there is one
FindAddrByChannelNumber(chNum) ==
    IF findByNumber(chanMap, chNum) = 0
      THEN <<0, FALSE>>
      ELSE <<bindings[findByNumber(chanMap, chNum)].addr, TRUE>>

\* ------------------------------------------------------ the refresh timers
timerIDRefreshAlloc == 0
timerIDRefreshPerms == 1
TimerIDs == {timerIDRefreshAlloc, timerIDRefreshPerms}

\* lifetimes the configuration and the server's refresh responses carry
Lifetimes == {2, 4}

\* config.Lifetime of the endpoint
configLifetime == 4

\* the interval NewUDPConn gives refreshAllocTimer: c.lifetime/2
allocInterval(l) == l \div 2

\* PeriodicTimer: started by NewUDPConn, stopped by Close; a stopped timer
\* does not call its handler again
timerRunning(id) == IF id = timerIDRefreshAlloc THEN allocTimerOn ELSE permsTimerOn

\* permissionMap.addrs: the addresses that have an entry
permAddrs(m) == {p \in Peers : m[p] # 0}

\* some Close call has returned nil
CloseReturned == \E c \in Closers : cpc[c] = "returned" /\ cret[c] = "nil"

\* outcomes of the refresh transaction: a transaction error, a response
\* without a LIFETIME attribute, a response that carries one
RefreshResults == {"txErr", "noLifetime", "lifetime"}

\* (mutant) the response is applied whether or not the caller waits for it
lifetimeAfterRefresh_Always(cur, dontWait, res, l) ==
    IF res = "lifetime" THEN l ELSE cur

\* refreshAllocation: c.lifetime after the call, given the stored value, the
\* dontWait flag, the outcome of the transaction and the lifetime in the response
lifetimeAfterRefresh(cur, dontWait, res, l) ==
    IF res = "txErr" THEN cur
    ELSE IF dontWait THEN cur
    ELSE IF res = "noLifetime" THEN cur
    ELSE l

\* a refreshAllocation call has ended: what it was called with and what it
\* read from the transaction's result, which a call with dontWait never reads
\* (seq tells two calls with equal outcomes apart)
Ended(dontWait, res, l) ==
    [dontWait |-> dontWait, res |-> res, l |-> l, seq |-> 1 - lastRefresh.seq]

\* the timer's period has elapsed and its handler is called:
\* onRefreshTimers(id) reads c.lifetime under the read lock
TimerExpires(id) ==
    /\ timerRunning(id)
    /\ tpc[id] = "idle"
    /\ tlife' = [tlife EXCEPT ![id] = lifetime]
    /\ tpc' = [tpc EXCEPT ![id] = "called"]
    /\ UNCHANGED <<lifetime, allocPeriod, lateExch, lastRefresh, closerVars, writeVars, readVars, panicked>>

\* the exchange of the handler of timer id goes out
IssuedAfterClose(id) == IF CloseReturned THEN lateExch \cup {id} ELSE lateExch

\* refreshAllocation(lifetime, false): the refresh request goes out and the
\* handler waits for the response
RefreshAllocationSend ==
    /\ tpc[timerIDRefreshAlloc] = "called"
    /\ lateExch' = IssuedAfterClose(timerIDRefreshAlloc)
    /\ tpc' = [tpc EXCEPT ![timerIDRefreshAlloc] = "wait"]
    /\ UNCHANGED <<lifetime, allocPeriod, tlife, lastRefresh, closerVars, writeVars, readVars, panicked>>

\* refreshAllocation(lifetime, false): the transaction is over; c.lifetime is
\* updated from the response under the lock
RefreshAllocationDone ==
    /\ tpc[timerIDRefreshAlloc] = "wait"
    /\ \E res \in RefreshResults, l \in Lifetimes :
          /\ lifetime' = lifetimeAfterRefresh(lifetime, FALSE, res, l)
          /\ lastRefresh' = Ended(FALSE, res, l)
    /\ tpc' = [tpc EXCEPT ![timerIDRefreshAlloc] = "idle"]
    /\ UNCHANGED <<allocPeriod, tlife, lateExch, closerVars, writeVars, readVars, panicked>>

\* refreshPermissions: no address is tracked, nothing to refresh
RefreshPermissionsNone ==
    /\ tpc[timerIDRefreshPerms] = "called"
    /\ permAddrs(permMap) = {}
    /\ tpc' = [tpc EXCEPT ![timerIDRefreshPerms] = "idle"]
    /\ UNCHANGED <<lifetime, allocPeriod, tlife, lateExch, lastRefresh, closerVars, writeVars, readVars, panicked>>

\* refreshPermissions: createPermissions(addrs...) for every tracked address
\* goes out and the handler waits for the response
RefreshPermissionsSend ==
    /\ tpc[timerIDRefreshPerms] = "called"
    /\ permAddrs(permMap) # {}
    /\ lateExch' = IssuedAfterClose(timerIDRefreshPerms)
    /\ tpc' = [tpc EXCEPT ![timerIDRefreshPerms] = "wait"]
    /\ UNCHANGED <<lifetime, allocPeriod, tlife, lastRefresh, closerVars, writeVars, readVars, panicked>>

\* refreshPermissions: createPermissions returned, nil or an error; either
\* way the result is only logged
RefreshPermissionsDone ==
    /\ tpc[timerIDRefreshPerms] = "wait"
    /\ \E res \in TxResults : createPermissionsFails(res) \in BOOLEAN
    /\ tpc' = [tpc EXCEPT ![timerIDRefreshPerms] = "idle"]
    /\ UNCHANGED <<lifetime, allocPeriod, tlife, lateExch, lastRefresh, closerVars, writeVars, readVars, panicked>>

onRefreshTimers ==
    \/ \E id \in TimerIDs : TimerExpires(id)
    \/ RefreshAllocationSend
    \/ RefreshAllocationDone
    \/ RefreshPermissionsNone
    \/ RefreshPermissionsSend
    \/ RefreshPermissionsDone

\* -------------------------------------------------------------------- Close
\* c.refreshAllocTimer.Stop(); c.refreshPermsTimer.Stop(); then the select on
\* closeCh: closed already, return "already closed"; otherwise go on to close it
CloseBegin(c) ==
    /\ cpc[c] = "idle"
    /\ allocTimerOn' = FALSE
    /\ permsTimerOn' = FALSE
    /\ IF closeCh
         THEN /\ cret' = [cret EXCEPT ![c] = "alreadyClosed"]
              /\ cpc' = [cpc EXCEPT ![c] = "returned"]
         ELSE /\ cpc' = [cpc EXCEPT ![c] = "closing"]
              /\ cret' = cret
    /\ UNCHANGED <<closeCh, teardowns, deallocated, wcaught, refreshVars,
                   writeVars, readVars, panicked>>

\* close(c.closeCh), which panics on a closed channel and otherwise wakes
\* every reader parked in the select; then c.refreshAllocation(0, true),
\* c.obs.OnDeallocated(c.relayedAddr), return nil
CloseFinish(c) ==
    /\ cpc[c] = "closing"
    /\ IF closeCh
         THEN /\ panicked' = TRUE
              /\ cret' = [cret EXCEPT ![c] = "panic"]
              /\ cpc' = [cpc EXCEPT ![c] = "panicked"]
              /\ UNCHANGED <<closeCh, teardowns, deallocated, rpc, rcase, wcaught, lifetime, lastRefresh>>
         ELSE /\ closeCh' = TRUE
              /\ rpc' = [r \in Readers |-> IF r \in Parked("close") THEN "woken" ELSE rpc[r]]
              /\ rcase' = [r \in Readers |-> IF r \in Parked("close") THEN "close" ELSE rcase[r]]
              /\ wcaught' = [ws |-> {w \in Writers : wpc[w] \in {"permWait", "bindWait"}},
                              n |-> nWrites]
              /\ teardowns' = teardowns + 1
              /\ \E res \in RefreshResults, l \in Lifetimes :
                    /\ lifetime' = lifetimeAfterRefresh(lifetime, TRUE, res, l)
                    /\ lastRefresh' = Ended(TRUE, "unread", 0)
              /\ deallocated' = deallocated + 1
              /\ cret' = [cret EXCEPT ![c] = "nil"]
              /\ cpc' = [cpc EXCEPT ![c] = "returned"]
              /\ panicked' = panicked
    /\ UNCHANGED <<allocTimerOn, permsTimerOn, allocPeriod, tpc, tlife, lateExch,
                   writeVars, readCh, closed, timerArmed, timerC,
                   deadline, rbuf, rout, rres, rlate, nReads, nInbound,
                   accepted, dropped, delivered, shortDropped>>

Close(c) == CloseBegin(c) \/ CloseFinish(c)

\* --------------------------------------------------------- the specification
\* NewUDPConn: empty trackers, empty read queue, a read timer that never
\* fires, open close channel, both refresh timers started
InitWrite ==
    /\ perms = <<>>
    /\ permMap = [p \in Peers |-> 0]
    /\ bindings = <<>>
    /\ addrMap = [p \in Peers |-> 0]
    /\ chanMap = {}
    /\ wpc = [w \in Writers |-> "idle"]
    /\ wpeer = [w \in Writers |-> 0]
    /\ wperm = [w \in Writers |-> 0]
    /\ wbind = [w \in Writers |-> 0]
    /\ wevs = [w \in Writers |-> <<>>]
    /\ wret = [w \in Writers |-> "none"]
    /\ wready = [w \in Writers |-> FALSE]
    /\ nWrites = 0
    /\ permExch = [p \in Peers |-> 0]
    /\ bindExch = [p \in Peers |-> 0]
    /\ exchFailed = [p \in Peers |-> FALSE]
    /\ permGranted = [p \in Peers |-> 0]

InitRest ==
    /\ panicked = FALSE
    /\ cpc = [c \in Closers |-> "idle"]
    /\ cret = [c \in Closers |-> "none"]
    /\ closeCh = FALSE
    /\ allocTimerOn = TRUE
    /\ permsTimerOn = TRUE
    /\ teardowns = 0
    /\ deallocated = 0
    /\ wcaught = [ws |-> {}, n |-> 0]
    /\ lifetime = configLifetime
    /\ allocPeriod = allocInterval(configLifetime)
    /\ tpc = [id \in TimerIDs |-> "idle"]
    /\ tlife = [id \in TimerIDs |-> 0]
    /\ lateExch = {}
    /\ lastRefresh = [dontWait |-> FALSE, res |-> "none", l |-> 0, seq |-> 0]
    /\ readCh = <<>>
    /\ closed = FALSE
    /\ timerArmed = FALSE
    /\ timerC = 0
    /\ deadline = "none"
    /\ rpc = [r \in Readers |-> "idle"]
    /\ rbuf = [r \in Readers |-> 0]
    /\ rcase = [r \in Readers |-> "none"]
    /\ rres = [r \in Readers |-> "none"]
    /\ rout = [r \in Readers |-> [n |-> 0, from |-> 0]]
    /\ rlate = [r \in Readers |-> FALSE]
    /\ nReads = 0
    /\ nInbound = 0
    /\ accepted = <<>>
    /\ dropped = {}
    /\ delivered = <<>>
    /\ shortDropped = {}

Init == InitWrite /\ InitRest

\* the write side: the goroutines that call WriteTo
Next ==
    \/ \E w \in Writers : WriteTo(w)

Spec == Init /\ [][Next]_vars

\* the read side: the goroutines that call ReadFrom and Close, the transport
\* that delivers datagrams, the caller that sets deadlines, and the timer
NextRead ==
    \/ \E r \in Readers : ReadFrom(r)
    \/ \E len \in Sizes : HandleInbound(len)
    \/ \E t \in Deadlines : SetReadDeadline(t)
    \/ TimerFires
    \/ \E c \in Closers : Close(c)

SpecRead == Init /\ [][NextRead]_vars

\* the scheduler runs every goroutine that can run: a reader that is in its
\* select or was woken takes its next step
FairRead ==
    \A r \in Readers :
        /\ WF_vars(ReadFromWoken(r))
        /\ WF_vars(ReadFromPark(r) \/ ReadFromData(r) \/ ReadFromTimeout(r) \/ ReadFromClosed(r))

SpecReadLive == SpecRead /\ FairRead

\* the writers and one goroutine that calls Close while WriteTo calls are
\* under way
NextCloseWrite ==
    \/ \E w \in Writers : WriteTo(w)
    \/ Close(1)

SpecCloseWrite == Init /\ [][NextCloseWrite]_vars

\* the endpoint after writer 1 has created the permission of peer 1 in its
\* first WriteTo: the call is about to look the binding up
AfterPermissionGranted ==
    /\ perms = <<[st |-> "Permitted", holder |-> 0]>>
    /\ permMap = [p \in Peers |-> IF p = 1 THEN 1 ELSE 0]
    /\ bindings = <<>>
    /\ addrMap = [p \in Peers |-> 0]
    /\ chanMap = {}
    /\ wpc = [w \in Writers |-> IF w = 1 THEN "bindFind" ELSE "idle"]
    /\ wpeer = [w \in Writers |-> IF w = 1 THEN 1 ELSE 0]
    /\ wperm = [w \in Writers |-> 0]
    /\ wbind = [w \in Writers |-> 0]
    /\ wevs = [w \in Writers |-> IF w = 1 THEN <<Ev("perm", 0)>> ELSE <<>>]
    /\ wret = [w \in Writers |-> "none"]
    /\ wready = [w \in Writers |-> FALSE]
    /\ nWrites = 1
    /\ permExch = [p \in Peers |-> IF p = 1 THEN 1 ELSE 0]
    /\ bindExch = [p \in Peers |-> 0]
    /\ exchFailed = [p \in Peers |-> FALSE]
    /\ permGranted = [p \in Peers |-> IF p = 1 THEN 1 ELSE 0]

\* the refresh side: the two timers with their handler, and Close, on an
\* endpoint that tracks no peer yet or tracks one
InitRefresh == (InitWrite \/ AfterPermissionGranted) /\ InitRest

NextRefresh ==
    \/ onRefreshTimers
    \/ \E c \in Closers : Close(c)

SpecRefresh == InitRefresh /\ [][NextRefresh]_vars

\* ------------------------------------------------- properties of WriteTo
\* the writer's last call is over and was not refused for its address
Returned(w) == wpc[w] = "idle" /\ wret[w] \notin {"none", "badAddr"}

Kinds(evs) == {evs[i].k : i \in 1..Len(evs)}

\* the channel numbers this call sent a channel-bind request for
BindNumbers(evs) == {evs[i].n : i \in {j \in 1..Len(evs) : evs[j].k = "bind"}}

\* C1: for a peer none of whose exchanges has failed, the writes to it, in
\* any interleaving, issue at most one create-permission exchange and at
\* most one channel-bind exchange in total.
C1_OneExchangePerNewPeer ==
    \A p \in Peers : ~exchFailed[p] => permExch[p] <= 1 /\ bindExch[p] <= 1

\* C2: a WriteTo that starts when the binding tracked for its peer is Ready
\* and that hands its payload to the transport hands it over as channel data
\* with the peer's channel number (the number of a Ready binding of that
\* peer), never as a send indication.  (Stated for runs without a panic.)
C2_ReadyThenChannelData ==
    \A w \in Writers :
        (wready[w] /\ wpc[w] = "idle" /\ wret[w] = transportResult /\ ~panicked)
            => \E n \in 1..Len(bindings) :
                  /\ bindings[n].addr = wpeer[w]
                  /\ bindings[n].st = "Ready"
                  /\ wevs[w][Len(wevs[w])] = sendChannelData(n)

C4_BindFailureFallsBack ==
    \A w \in Writers :
        /\ wpc[w] # "panicked"
        /\ (Returned(w) /\ \E n \in BindNumbers(wevs[w]) : bindings[n].st # "Ready")
              => /\ wevs[w][Len(wevs[w])] = sendIndication
                 /\ wret[w] = transportResult

\* C5: the step in which a WriteTo learns that its create-permission
\* exchange failed returns (0, error) with nothing but that exchange on the
\* wire (no bind request, no payload) and leaves the permission map without
\* an entry for the peer; and a call that finds no entry starts from a new
\* permission.
C5_PermissionFailureStep ==
    \A w \in Writers :
        /\ (wpc[w] = "permWait" /\ wpc'[w] = "idle")
              => /\ wret'[w] = "permErr"
                 /\ wevs'[w] = <<Ev("perm", 0)>>
                 /\ permFind(permMap', wpeer[w]) = 0
        /\ (wpc[w] = "idle" /\ wpc'[w] # "idle" /\ permFind(permMap, wpeer'[w]) = 0)
              => wpc'[w] = "permInsert"

ReadReturned(r) == rpc[r] = "idle" /\ rres[r] # "none"

QueueIds == [i \in 1..Len(readCh) |-> readCh[i].id]

Min(a, b) == IF a < b THEN a ELSE b

\* C6: a ReadFrom invoked after Close has returned never blocks and returns
\* the closed-connection error, not a datagram and not a timeout.
C6_ReadAfterCloseIsClosed ==
    \A r \in Readers :
        rlate[r] => /\ rpc[r] # "parked"
                    /\ ReadReturned(r) => rres[r] = "closed"

\* a blocked ReadFrom that the close of closeCh has woken returns the
\* closed-connection error and nothing else
C7_WokenByCloseStep ==
    \A r \in Readers :
        (rpc[r] = "woken" /\ rcase[r] = "close" /\ rpc'[r] # "woken")
            => (rpc'[r] = "idle" /\ rres'[r] = "closed" /\ closed')

\* C7: a ReadFrom that was blocked when Close closed the close channel
\* returns the closed-connection error; and once the close channel is
\* closed, every ReadFrom in progress returns: none stays blocked.
C7_CloseUnblocksRead ==
    /\ [][C7_WokenByCloseStep]_vars
    /\ \A r \in Readers : (closeCh /\ rpc[r] # "idle") ~> (rpc[r] = "idle")

\* a reader that was parked has been woken by the close of closeCh
C7_Witness == \E r \in Readers : rpc[r] = "woken" /\ rcase[r] = "close" /\ closeCh

\* C8: of all Close calls, sequential or concurrent, one returns nil and runs
\* the teardown, every other one returns "already closed"; none panics, and
\* OnDeallocated runs at most once.
C8_ExactlyOneCloseSucceeds ==
    /\ \A c \in Closers : cpc[c] # "panicked"
    /\ \A c \in Closers : cpc[c] = "returned" => cret[c] \in {"nil", "alreadyClosed"}
    /\ Cardinality({c \in Closers : cret[c] = "nil"}) <= 1
    /\ deallocated <= 1
    /\ teardowns <= 1

\* C9 as claimed: the queue never holds more than its capacity, and the
\* datagrams returned by successful ReadFrom calls, followed by those still
\* queued, are exactly the datagrams HandleInbound accepted, in arrival order.
C9_ReadsExactlyAccepted ==
    /\ Len(readCh) <= maxReadQueueSize
    /\ delivered \o QueueIds = accepted

\* C9 as amended: the same, less the datagrams that a ReadFrom with too short
\* a buffer took out of the queue; without any ReadFrom the queue holds the
\* first datagrams delivered, up to its capacity, and the later ones are dropped.
C9_ReadsAcceptedLessShort ==
    /\ Len(readCh) <= maxReadQueueSize
    /\ delivered \o QueueIds = SelectSeq(accepted, LAMBDA id : id \notin shortDropped)
    /\ nReads = 0 =>
          /\ QueueIds = [i \in 1..Min(nInbound, maxReadQueueSize) |-> i]
          /\ dropped = {i \in 1..nInbound : i > maxReadQueueSize}

\* a datagram was dropped at a full queue, one was lost to a short buffer and
\* one was read
C9_Witness == dropped # {} /\ shortDropped # {} /\ delivered # <<>>

\* C10: while the last deadline set is one in the past and the endpoint is
\* open, no ReadFrom blocks.
C10_PastDeadlineNeverBlocks ==
    \A r \in Readers : (deadline = "past" /\ ~closeCh) => rpc[r] # "parked"

\* ------------------------------------- properties of the refresh timers
\* C11: no handler of a refresh timer issues an exchange (an allocation
\* refresh with the stored lifetime, or a bulk create-permission) after a
\* Close has returned nil, and the lifetime-zero teardown goes out once.
C11_NoRefreshAfterClose ==
    /\ lateExch = {}
    /\ teardowns <= 1

\* C15: at every moment the interval of refreshAllocTimer is half of the
\* stored allocation lifetime.
C15_PeriodIsHalfLifetime == allocPeriod = allocInterval(lifetime)

\* a step changes c.lifetime only if it ends a waited refreshAllocation whose
\* response carries a lifetime, and then to that lifetime
C19_LifetimeStep ==
    IF /\ lastRefresh' # lastRefresh
       /\ ~lastRefresh'.dontWait
       /\ lastRefresh'.res = "lifetime"
      THEN lifetime' = lastRefresh'.l
      ELSE lifetime' = lifetime

\* C19: the stored lifetime changes only when a waited allocation refresh
\* succeeds with a response that carries a lifetime, and becomes that value; a
\* failed exchange, a response without lifetime, and the lifetime-zero refresh
\* of Close leave it unchanged.
C19_LifetimeOnlyByWaitedRefresh == [][C19_LifetimeStep]_vars

\* the lifetime was replaced by a refresh, and Close has then sent its
\* teardown refresh
C19_Witness ==
    /\ lifetime # configLifetime
    /\ lastRefresh.dontWait

\* ------------------------------------------- more properties of WriteTo
\* writer w is inside a create-permission or channel-bind exchange
InExchange(w) == wpc[w] \in {"permWait", "bindWait"}

\* writer w waits for the mutex of a permission or of a binding
WaitsForLock(w) ==
    \/ wpc[w] = "permLock" /\ perms[wperm[w]].holder # 0
    \/ wpc[w] = "bindLock" /\ bindings[wbind[w]].holder # 0

\* a writer waits only for a writer that is inside an exchange for the same
\* peer: every step of a write to another peer stays possible
C12_PeersIndependent ==
    \A w \in Writers :
        WaitsForLock(w) =>
            \E v \in Writers \ {w} : InExchange(v) /\ wpeer[v] = wpeer[w]

\* C12: a write to B is never held up by an exchange for a different peer A,
\* while writes to the same peer are serialized: no two writers are inside an
\* exchange of the same kind for the same peer at the same time.
C12_IndependentAndSerialized ==
    /\ C12_PeersIndependent
    /\ \A v, w \in Writers :
          (v # w /\ InExchange(v) /\ wpc[w] = wpc[v]) => wpeer[v] # wpeer[w]

\* a step in which a call starts and no writer moves on is a call that was
\* refused for its address: it leaves the trackers and the wire alone
C13_RefusedStep ==
    (nWrites' # nWrites /\ wpc' = wpc) =>
        /\ UNCHANGED <<perms, permMap, bindings, addrMap, chanMap, permExch, bindExch>>
        /\ \E w \in Writers :
              /\ wpc'[w] = "idle" /\ wret'[w] = "badAddr" /\ wevs'[w] = <<>>
              /\ \A v \in Writers \ {w} : wevs'[v] = wevs[v] /\ wret'[v] = wret[v]

\* C13: a WriteTo whose destination is not a UDP address returns its error at
\* once, creates no permission and no binding, issues no exchange and hands
\* nothing to the transport.
C13_NotUDPChangesNothing == [][C13_RefusedStep]_vars

\* the only writer that ever called has created a permission and a binding,
\* and its last call was refused
C13_Witness ==
    /\ \E w \in Writers :
          /\ wpc[w] = "idle" /\ wret[w] = "badAddr"
          /\ \A v \in Writers \ {w} : wpc[v] = "idle" /\ wret[v] = "none"
    /\ perms # <<>> /\ bindings # <<>>

\* writer w is still in the call that was inside an exchange when closeCh
\* was closed (no call has started since)
CaughtByClose(w) == w \in wcaught.ws /\ nWrites = wcaught.n

\* C14: a WriteTo that was waiting for its create-permission or channel-bind
\* exchange when Close closed the endpoint leaves the exchange only to return
\* an error, with nothing handed to the transport.
C14_CloseUnblocksWriters ==
    \A w \in Writers :
        (CaughtByClose(w) /\ ~InExchange(w)) =>
            /\ wpc[w] = "idle"
            /\ wret[w] \notin {"none", transportResult}
            /\ Kinds(wevs[w]) \cap {"ind", "chan"} = {}

\* writer w is the only goroutine that has called WriteTo so far
OnlyWriter(w) == \A v \in Writers \ {w} : wpc[v] = "idle" /\ wret[v] = "none"

\* C16: with one goroutine writing, a write to P that has sent its payload
\* while P's binding is Failed has issued a channel-bind exchange itself:
\* either it is the write whose bind failed, or it is a later one, which
\* binds again.
C16_FailedBindRetried ==
    \A w \in Writers :
        (/\ OnlyWriter(w)
         /\ Returned(w) /\ wret[w] = transportResult
         /\ findByAddr(addrMap, wpeer[w]) # 0
         /\ bindings[findByAddr(addrMap, wpeer[w])].st = "Failed")
            => "bind" \in Kinds(wevs[w])

\* a peer whose tracked permission is Permitted keeps a tracked, Permitted
\* permission; and no permission object leaves the state Permitted
C17_PermittedStep ==
    /\ \A p \in Peers :
          (permFind(permMap, p) # 0 /\ perms[permFind(permMap, p)].st = "Permitted")
              => (permFind(permMap', p) # 0 /\ perms'[permFind(permMap', p)].st = "Permitted")
    /\ \A i \in 1..Len(perms) : perms[i].st = "Permitted" => perms'[i].st = "Permitted"

\* C17: a permission only goes from Idle to Permitted; nothing reverts a
\* tracked Permitted permission to Idle or removes it from the tracker.
C17_PermittedNeverReverts == [][C17_PermittedStep]_vars

\* C18: the lookup by channel number resolves n to P exactly when the binding
\* tracked for P has number n.
C18_LookupsAgree ==
    \A n \in 1..Len(bindings), p \in Peers :
        (FindAddrByChannelNumber(n) = <<p, TRUE>>) <=> (findByAddr(addrMap, p) = n)

C21_ShortBufferDropsDatagram ==
    /\ \A r \in Readers : rres[r] = "shortBuffer" => rout[r] = [n |-> 0, from |-> 0]
    /\ \A id \in shortDropped :
          /\ \A i \in 1..Len(delivered) : delivered[i] # id
          /\ \A i \in 1..Len(readCh) : readCh[i].id # id

\* a datagram was lost to a short buffer, and a later ReadFrom with a buffer
\* long enough for any datagram has returned the datagram that came after it
C21_Witness ==
    \E r \in Readers :
        /\ ReadReturned(r) /\ rres[r] = "data" /\ rbuf[r] = 2
        /\ \E id \in shortDropped : rout[r].from > id

====
